---- MODULE Spec2Model ----
(***************************************************************************)
(* AICaC adoption tooling: the compliance validator (validate.py) and the  *)
(* README badge updater (update_badge.py), as state machines over the      *)
(* project's files.                                                        *)
(*                                                                         *)
(* Text is a sequence of atoms.  An atom is either a single character      *)
(* ("x" stands for any character that is not one of the others) or a       *)
(* literal piece of badge markup that is never split: no atom but ")"      *)
(* holds a closing parenthesis, and "[![" occurs only inside the two       *)
(* opener atoms, so the regular expression and the substring tests of the  *)
(* code are decided exactly on the atoms.                                  *)
(***************************************************************************)
EXTENDS Integers, Sequences, FiniteSets, TLC

VARIABLES
    ai_dir,     \* validate.py: whether <project>/.ai exists
    found,      \* validate.py: the file names present in .ai/
    context,    \* validate.py: the content of .ai/context.yaml (NoContext: no file)
    errors,     \* AICaCValidator.errors (self.errors), kept by the object
    report,     \* the dict returned by the last validate() call
    calls,      \* number of validate() calls made on the validator object
    readme,     \* update_badge.py: the bytes of README.md (NoFile: no file)
    last,       \* the tuple returned by the last update_badge() call
    ucalls,     \* number of update_badge() calls made
    readme0,    \* the bytes of README.md before the first update_badge() call
    perm,       \* update_badge.py: what open() allows on README.md
    project,    \* bootstrap.py: the project directory AICaCBootstrap is made for
    analysis,   \* the dict returned by analyze_project() in the last bootstrap run
    ai_readme,  \* bootstrap.py: the content of .ai/README.md ("no file": no file)
    result,     \* the dict returned by create_minimal_structure() in the last bootstrap run
    bcalls,     \* number of bootstrap runs made
    updater,    \* update_badge.py: the position and locals of each concurrent update_badge()
    answer,             \* performance_measurement.py check_answer: the answer text
    expected_keywords,  \* check_answer: the list of expected keywords
    answer_found,       \* what check_answer returned: "True", "False" ("none": not called)
    run,        \* measurement scripts: the arguments and environment of the run
    pos,        \* run_experiment: where the run is and its loop variables
    attempts,   \* the loop variables and outcome of each pass through the loop body
    results,    \* run_experiment: results (TokenExperiment.results)
    proc        \* how the process of the measurement script ended

\* The state of the measurement scripts.
measure == <<answer, expected_keywords, answer_found, run, pos, attempts, results, proc>>

\* What a bootstrap run leaves behind besides context.yaml.
bootstrap_run == <<ai_readme, result, bcalls>>

\* What the validator and update_badge() never change.
ext == <<perm, project, analysis, bootstrap_run, measure, updater>>

vars == <<ai_dir, found, context, errors, report, calls, readme, last, ucalls, readme0, ext>>

\* ---------------------------------------------------------------- bounds
MaxCalls == 2
MaxLines == 3
MaxUpdates == 3
MaxAnswer == 2
MaxKeywords == 3
MaxTrials == 2
MaxFailures == 3
MaxBoots == 2

\* No bootstrap run is part of the behaviour.
NoProject == [base |-> "none"]
NoAnalysis == [none |-> TRUE]
NoResult == [status |-> "none"]
BootIdle ==
    /\ project = NoProject /\ analysis = NoAnalysis
    /\ ai_readme = "no file" /\ result = NoResult /\ bcalls = 0

\* No concurrent update_badge() is part of the behaviour.
NoUpdaters == <<>>
RaceIdle == updater = NoUpdaters

\* No measurement script is part of the behaviour.
NoRun == [script |-> "none"]
Idle == [pc |-> "idle"]
NoProc == [exit |-> "running"]
ExperimentIdle == run = NoRun /\ pos = Idle /\ attempts = <<>> /\ results = <<>> /\ proc = NoProc

MeasureIdle ==
    /\ answer = <<>> /\ expected_keywords = <<>> /\ answer_found = "none"
    /\ ExperimentIdle

\* ------------------------------------------------------------ validate.py
OptionalFiles == {"architecture.yaml", "workflows.yaml", "decisions.yaml", "errors.yaml"}

REQUIRED_FILES == [f \in OptionalFiles \cup {"context.yaml"} |-> f = "context.yaml"]

Tiers == {"None", "Minimal", "Standard", "Comprehensive"}

NoContext == [doc |-> "no file"]

\* What yaml.safe_load and the dict lookups of _validate_context can see in a
\* context.yaml.  A field is "falsy" (key absent, so .get gives None or {},
\* or present with an empty value) or "ok" (truthy).  'project' is absent
\* (the {} default is used), a mapping, or a value without .get.
FieldVals == {"falsy", "ok"}

MappingContents ==
    [doc : {"mapping"}, version : FieldVals, project : {"absent", "not_mapping", "mapping"},
     name : FieldVals, type : FieldVals, entrypoints : FieldVals, common_tasks : FieldVals]

Plain(d) ==
    [doc |-> d, version |-> "falsy", project |-> "absent", name |-> "falsy",
     type |-> "falsy", entrypoints |-> "falsy", common_tasks |-> "falsy"]

\* "unreadable": open() raises; "yaml_error": safe_load raises YAMLError;
\* "not_mapping": the document is empty (None), a scalar or a list.
ContextContents ==
    {c \in MappingContents : c.project # "mapping" => (c.name = "falsy" /\ c.type = "falsy")}
      \cup {Plain("unreadable"), Plain("yaml_error"), Plain("not_mapping")}

ValidContext ==
    [doc |-> "mapping", version |-> "ok", project |-> "mapping", name |-> "ok",
     type |-> "ok", entrypoints |-> "ok", common_tasks |-> "ok"]

E_missing == "Required file missing: .ai/context.yaml"
E_version == "context.yaml: 'version' field is required"
E_name == "context.yaml: 'project.name' field is required"
E_type == "context.yaml: 'project.type' field is required"
E_entry == "context.yaml: at least one 'entrypoint' is required"
E_task == "context.yaml: at least one 'common_task' is required"
E_yaml == "context.yaml: Invalid YAML syntax"
E_read == "context.yaml: Error reading file"

\* _check_files: [found, errs], the presence map and what the call appends
\* to self.errors (one message per missing required file).
_check_files(fs) ==
    [found |-> [f \in DOMAIN REQUIRED_FILES |-> f \in fs],
     errs |-> IF \E f \in DOMAIN REQUIRED_FILES : REQUIRED_FILES[f] /\ f \notin fs
              THEN <<E_missing>> ELSE <<>>]

\* The common_tasks check left out.
_validate_context_mutant(fs, c) ==
    IF "context.yaml" \notin fs THEN [valid |-> FALSE, errs |-> <<>>]
    ELSE IF c.doc = "unreadable" THEN [valid |-> FALSE, errs |-> <<E_read>>]
    ELSE IF c.doc = "yaml_error" THEN [valid |-> FALSE, errs |-> <<E_yaml>>]
    ELSE IF c.doc = "not_mapping" THEN [valid |-> FALSE, errs |-> <<E_read>>]
    ELSE IF c.version # "ok" THEN [valid |-> FALSE, errs |-> <<E_version>>]
    ELSE IF c.project = "not_mapping" THEN [valid |-> FALSE, errs |-> <<E_read>>]
    ELSE IF c.project = "absent" \/ c.name # "ok" THEN [valid |-> FALSE, errs |-> <<E_name>>]
    ELSE IF c.type # "ok" THEN [valid |-> FALSE, errs |-> <<E_type>>]
    ELSE IF c.entrypoints # "ok" THEN [valid |-> FALSE, errs |-> <<E_entry>>]
    ELSE [valid |-> TRUE, errs |-> <<>>]

\* Every failing check reports, none returns.
_validate_context_all(fs, c) ==
    IF "context.yaml" \notin fs THEN [valid |-> FALSE, errs |-> <<>>]
    ELSE IF c.doc = "unreadable" THEN [valid |-> FALSE, errs |-> <<E_read>>]
    ELSE IF c.doc = "yaml_error" THEN [valid |-> FALSE, errs |-> <<E_yaml>>]
    ELSE IF c.doc = "not_mapping" THEN [valid |-> FALSE, errs |-> <<E_read>>]
    ELSE LET es == (IF c.version # "ok" THEN <<E_version>> ELSE <<>>)
                   \o (IF c.project = "not_mapping" THEN <<E_read>>
                       ELSE (IF c.project = "absent" \/ c.name # "ok" THEN <<E_name>> ELSE <<>>)
                            \o (IF c.project = "absent" \/ c.type # "ok" THEN <<E_type>> ELSE <<>>))
                   \o (IF c.entrypoints # "ok" THEN <<E_entry>> ELSE <<>>)
                   \o (IF c.common_tasks # "ok" THEN <<E_task>> ELSE <<>>)
         IN [valid |-> es = <<>>, errs |-> es]

\* The generic exception handler returning False without a message.
_validate_context_silent(fs, c) ==
    IF "context.yaml" \notin fs THEN [valid |-> FALSE, errs |-> <<>>]
    ELSE IF c.doc = "unreadable" THEN [valid |-> FALSE, errs |-> <<>>]
    ELSE IF c.doc = "yaml_error" THEN [valid |-> FALSE, errs |-> <<E_yaml>>]
    ELSE IF c.doc = "not_mapping" THEN [valid |-> FALSE, errs |-> <<>>]
    ELSE IF c.version # "ok" THEN [valid |-> FALSE, errs |-> <<E_version>>]
    ELSE IF c.project = "not_mapping" THEN [valid |-> FALSE, errs |-> <<>>]
    ELSE IF c.project = "absent" \/ c.name # "ok" THEN [valid |-> FALSE, errs |-> <<E_name>>]
    ELSE IF c.type # "ok" THEN [valid |-> FALSE, errs |-> <<E_type>>]
    ELSE IF c.entrypoints # "ok" THEN [valid |-> FALSE, errs |-> <<E_entry>>]
    ELSE IF c.common_tasks # "ok" THEN [valid |-> FALSE, errs |-> <<E_task>>]
    ELSE [valid |-> TRUE, errs |-> <<>>]

\* _validate_context: [valid, errs], errs being what the call appends to
\* self.errors.  The checks run in the order of the code and the first
\* failing one returns.
_validate_context(fs, c) ==
    IF "context.yaml" \notin fs THEN [valid |-> FALSE, errs |-> <<>>]
    ELSE IF c.doc = "unreadable" THEN [valid |-> FALSE, errs |-> <<E_read>>]
    ELSE IF c.doc = "yaml_error" THEN [valid |-> FALSE, errs |-> <<E_yaml>>]
    ELSE IF c.doc = "not_mapping" THEN [valid |-> FALSE, errs |-> <<E_read>>]
    ELSE IF c.version # "ok" THEN [valid |-> FALSE, errs |-> <<E_version>>]
    ELSE IF c.project = "not_mapping" THEN [valid |-> FALSE, errs |-> <<E_read>>]
    ELSE IF c.project = "absent" \/ c.name # "ok" THEN [valid |-> FALSE, errs |-> <<E_name>>]
    ELSE IF c.type # "ok" THEN [valid |-> FALSE, errs |-> <<E_type>>]
    ELSE IF c.entrypoints # "ok" THEN [valid |-> FALSE, errs |-> <<E_entry>>]
    ELSE IF c.common_tasks # "ok" THEN [valid |-> FALSE, errs |-> <<E_task>>]
    ELSE [valid |-> TRUE, errs |-> <<>>]

OptionalCount(found_files) == Cardinality({f \in OptionalFiles : found_files[f]})

\* Three optional files counted as less than two.
_determine_compliance_dip(found_files, context_valid) ==
    IF ~found_files["context.yaml"] \/ ~context_valid THEN "None"
    ELSE IF OptionalCount(found_files) >= 4 THEN "Comprehensive"
    ELSE IF OptionalCount(found_files) = 2 THEN "Standard"
    ELSE "Minimal"

\* The Comprehensive threshold off by one.
_determine_compliance_mutant(found_files, context_valid) ==
    IF ~found_files["context.yaml"] \/ ~context_valid THEN "None"
    ELSE IF OptionalCount(found_files) >= 3 THEN "Comprehensive"
    ELSE IF OptionalCount(found_files) >= 2 THEN "Standard"
    ELSE "Minimal"

_determine_compliance(found_files, context_valid) ==
    IF ~found_files["context.yaml"] \/ ~context_valid THEN "None"
    ELSE IF OptionalCount(found_files) >= 4 THEN "Comprehensive"
    ELSE IF OptionalCount(found_files) >= 2 THEN "Standard"
    ELSE "Minimal"

\* ------------------------------------------------------------ badge text
\* The atoms of badge markup.
OPEN == "[![AICaC]("
BUILD == "[![Build]("
CLOSE == ")"
MID == "]("
LINK == "https://github.com/eFAILution/AICaC"
SHIELDS == "https://img.shields.io/badge/AICaC-"

\* The Standard badge given the colour of Minimal.
_get_badge_recommendation_mutant(compliance_level) ==
    CASE compliance_level = "Comprehensive" -> <<SHIELDS, "Comprehensive", "-", "success", ".svg">>
      [] compliance_level = "Standard" -> <<SHIELDS, "Standard", "-", "green", ".svg">>
      [] compliance_level = "Minimal" -> <<SHIELDS, "Minimal", "-", "green", ".svg">>
      [] OTHER -> <<SHIELDS, "Not%20Adopted", "-", "red", ".svg">>

\* _get_badge_recommendation: the shields.io URL of a compliance level;
\* badges.get(level, badges['None']).
_get_badge_recommendation(compliance_level) ==
    CASE compliance_level = "Comprehensive" -> <<SHIELDS, "Comprehensive", "-", "success", ".svg">>
      [] compliance_level = "Standard" -> <<SHIELDS, "Standard", "-", "brightgreen", ".svg">>
      [] compliance_level = "Minimal" -> <<SHIELDS, "Minimal", "-", "green", ".svg">>
      [] OTHER -> <<SHIELDS, "Not%20Adopted", "-", "red", ".svg">>

\* _get_badge_markdown: f"[![AICaC]({badge_url})](https://github.com/eFAILution/AICaC)"
_get_badge_markdown(compliance_level) ==
    <<OPEN>> \o _get_badge_recommendation(compliance_level) \o <<CLOSE, MID, LINK, CLOSE>>

NoReport == [none |-> TRUE]

\* A validator that runs the file check before the directory check.
NotFoundReport_mutant ==
    [valid |-> FALSE, compliance_level |-> "None",
     error |-> ".ai/ directory not found",
     recommendation |-> "Create .ai/ directory and add context.yaml",
     found_files |-> [f \in DOMAIN REQUIRED_FILES |-> FALSE]]

\* The dict validate() returns when .ai/ does not exist.
NotFoundReport ==
    [valid |-> FALSE, compliance_level |-> "None",
     error |-> ".ai/ directory not found",
     recommendation |-> "Create .ai/ directory and add context.yaml"]

\* A validate() whose full report leaves the recommended badge out.
validate_mutant ==
    /\ calls < MaxCalls
    /\ calls' = calls + 1
    /\ IF ~ai_dir
       THEN /\ report' = NotFoundReport
            /\ errors' = errors
       ELSE LET cf == _check_files(found)
                cv == _validate_context(found, context)
                compliance_level == _determine_compliance(cf.found, cv.valid)
                errs == errors \o cf.errs \o cv.errs
            IN /\ errors' = errs
               /\ report' = [valid |-> compliance_level # "None",
                             compliance_level |-> compliance_level,
                             found_files |-> cf.found,
                             context_valid |-> cv.valid,
                             errors |-> errs,
                             badge_markdown |-> _get_badge_markdown(compliance_level)]
    /\ UNCHANGED <<ai_dir, found, context, readme, last, ucalls, readme0, ext>>

\* validate(): the early return when .ai/ is missing, else the full report.
validate ==
    /\ calls < MaxCalls
    /\ calls' = calls + 1
    /\ IF ~ai_dir
       THEN /\ report' = NotFoundReport
            /\ errors' = errors
       ELSE LET cf == _check_files(found)
                cv == _validate_context(found, context)
                compliance_level == _determine_compliance(cf.found, cv.valid)
                errs == errors \o cf.errs \o cv.errs
            IN /\ errors' = errs
               /\ report' = [valid |-> compliance_level # "None",
                             compliance_level |-> compliance_level,
                             found_files |-> cf.found,
                             context_valid |-> cv.valid,
                             errors |-> errs,
                             badge |-> _get_badge_recommendation(compliance_level),
                             badge_markdown |-> _get_badge_markdown(compliance_level)]
    /\ UNCHANGED <<ai_dir, found, context, readme, last, ucalls, readme0, ext>>

\* An exit code that follows the error list instead of the validity flag.
validate_main_mutant(res) ==
    IF "errors" \in DOMAIN res /\ res.errors = <<>> THEN 0 ELSE 1

\* validate.py main(): the exit code of the process for the results that
\* validate() returned; print_report reads only keys these results hold.
validate_main(res) == IF res.valid THEN 0 ELSE 1

\* bootstrap.py create_minimal_structure: makes .ai/ if needed and writes
\* context.yaml from the template; project.name is the detected name, which
\* may be the empty string.
create_minimal_structure ==
    /\ \E project_name \in FieldVals :
          context' = [ValidContext EXCEPT !.name = project_name]
    /\ ai_dir' = TRUE
    /\ found' = found \cup {"context.yaml"}
    /\ UNCHANGED <<errors, report, calls, readme, last, ucalls, readme0, ext>>

\* The project's files change between two runs of the validator.
AddOptional(f) ==
    /\ ai_dir /\ f \notin found
    /\ found' = found \cup {f}
    /\ UNCHANGED <<ai_dir, context, errors, report, calls, readme, last, ucalls, readme0, ext>>

RemoveOptional(f) ==
    /\ ai_dir /\ f \in found
    /\ found' = found \ {f}
    /\ UNCHANGED <<ai_dir, context, errors, report, calls, readme, last, ucalls, readme0, ext>>

RemoveAiDir ==
    /\ ai_dir
    /\ ai_dir' = FALSE /\ found' = {} /\ context' = NoContext
    /\ UNCHANGED <<errors, report, calls, readme, last, ucalls, readme0, ext>>

NoFile == <<"no file">>
NoReturn == [ok |-> FALSE, action |-> "", level |-> ""]

\* The validator object is created (__init__: errors = []) on a project
\* with any documentation directory.
Init ==
    /\ ai_dir \in BOOLEAN
    /\ found \in SUBSET (OptionalFiles \cup {"context.yaml"})
    /\ ai_dir = FALSE => found = {}
    /\ context \in ContextContents \cup {NoContext}
    /\ (context = NoContext) <=> ("context.yaml" \notin found)
    /\ errors = <<>>
    /\ report = NoReport
    /\ calls = 0
    /\ readme = NoFile /\ readme0 = NoFile /\ last = NoReturn /\ ucalls = 0
    /\ perm = "rw"
    /\ BootIdle
    /\ MeasureIdle
    /\ RaceIdle

Next ==
    \/ validate
    \/ create_minimal_structure
    \/ \E f \in OptionalFiles : AddOptional(f)
    \/ \E f \in OptionalFiles : RemoveOptional(f)
    \/ RemoveAiDir

Spec == Init /\ [][Next]_vars

\* -------------------------------------------------------- update_badge.py
Min(S) == CHOOSE m \in S : \A n \in S : m <= n

\* The index of the first ")" of s at or after i; 0 when there is none.
NextClose(s, i) ==
    LET S == {j \in i..Len(s) : s[j] = CLOSE}
    IN IF S = {} THEN 0 ELSE Min(S)

\* BADGE_PATTERN = \[\!\[AICaC\]\([^\)]+\)\]\([^\)]+\) tried at index i of
\* s: the index of the last atom of the match, 0 when it does not match
\* there.  [^\)]+ takes every atom up to the next ")", line breaks and
\* brackets included, and needs at least one.
BADGE_PATTERN(s, i) ==
    IF s[i] # OPEN THEN 0
    ELSE LET j == NextClose(s, i + 1)
         IN IF j = 0 \/ j = i + 1 THEN 0
            ELSE IF j + 1 > Len(s) \/ s[j + 1] # MID THEN 0
            ELSE LET k == NextClose(s, j + 2)
                 IN IF k = 0 \/ k = j + 2 THEN 0 ELSE k

\* re.search(BADGE_PATTERN, s) from index i on: where the leftmost match
\* starts, 0 when there is none.
re_search(s, i) ==
    LET S == {j \in i..Len(s) : BADGE_PATTERN(s, j) # 0}
    IN IF S = {} THEN 0 ELSE Min(S)

\* re.sub(BADGE_PATTERN, repl, s): every non-overlapping match, leftmost
\* first, replaced by repl (repl holds no backslash, so it is literal).
RECURSIVE re_sub_from(_, _, _)
re_sub_from(repl, s, i) ==
    LET m == re_search(s, i)
    IN IF m = 0 THEN SubSeq(s, i, Len(s))
       ELSE SubSeq(s, i, m - 1) \o repl \o re_sub_from(repl, s, BADGE_PATTERN(s, m) + 1)

re_sub(repl, s) == re_sub_from(repl, s, 1)

BADGE_TEMPLATES ==
    [Comprehensive |-> <<OPEN, SHIELDS, "Comprehensive", "-", "success", ".svg", CLOSE, MID, LINK, CLOSE>>,
     Standard |-> <<OPEN, SHIELDS, "Standard", "-", "brightgreen", ".svg", CLOSE, MID, LINK, CLOSE>>,
     Minimal |-> <<OPEN, SHIELDS, "Minimal", "-", "green", ".svg", CLOSE, MID, LINK, CLOSE>>,
     None |-> <<OPEN, SHIELDS, "Not%20Adopted", "-", "red", ".svg", CLOSE, MID, LINK, CLOSE>>]

\* The level looked up is lost: every level gets the fallback badge.
get_badge_for_level_mutant(compliance_level) == BADGE_TEMPLATES["None"]

\* BADGE_TEMPLATES.get(compliance_level, BADGE_TEMPLATES['None'])
get_badge_for_level(compliance_level) ==
    IF compliance_level \in DOMAIN BADGE_TEMPLATES
    THEN BADGE_TEMPLATES[compliance_level] ELSE BADGE_TEMPLATES["None"]

\* re.match in place of re.search: only a badge at the very start is seen.
has_badge_mutant(content) == Len(content) > 0 /\ BADGE_PATTERN(content, 1) # 0

has_badge(content) == re_search(content, 1) # 0

\* content.split('\n')
RECURSIVE split(_)
split(s) ==
    LET S == {i \in 1..Len(s) : s[i] = "\n"}
    IN IF S = {} THEN <<s>>
       ELSE <<SubSeq(s, 1, Min(S) - 1)>> \o split(SubSeq(s, Min(S) + 1, Len(s)))

\* '\n'.join(lines)
RECURSIVE join(_)
join(lines) ==
    IF Len(lines) = 0 THEN <<>>
    ELSE IF Len(lines) = 1 THEN lines[1]
    ELSE lines[1] \o <<"\n">> \o join(Tail(lines))

\* line.startswith('#'), '[![' in line, line.strip() == ''
startswith_hash(line) == Len(line) > 0 /\ line[1] = "#"
contains_badge_open(line) == \E i \in 1..Len(line) : line[i] \in {OPEN, BUILD}
is_blank(line) == \A i \in 1..Len(line) : line[i] \in {" ", "\t"}

\* Without a heading the badge goes to the end of the document.
insert_index_mutant(lines) ==
    LET H == {i \in 0..(Len(lines) - 1) : startswith_hash(lines[i + 1])}
    IN IF H = {} THEN Len(lines) ELSE Min(H) + 1

\* The first loop of the insertion branch: one past the first heading line,
\* 0 when no line is a heading (indices count from 0 as in the code).
insert_index(lines) ==
    LET H == {i \in 0..(Len(lines) - 1) : startswith_hash(lines[i + 1])}
    IN IF H = {} THEN 0 ELSE Min(H) + 1

\* A scan that takes lines holding '[![' only.
RECURSIVE badge_end_index_mutant(_, _, _)
badge_end_index_mutant(lines, i, start) ==
    IF i < Len(lines) /\ contains_badge_open(lines[i + 1])
    THEN badge_end_index_mutant(lines, i + 1, start)
    ELSE i

\* The second loop: from index i on, a line holding '[![' or, past the
\* first scanned line, a blank line moves the end of the badge block on;
\* any other line stops the scan.
RECURSIVE badge_end_index(_, _, _)
badge_end_index(lines, i, start) ==
    IF i < Len(lines) /\ (contains_badge_open(lines[i + 1]) \/ (i > start /\ is_blank(lines[i + 1])))
    THEN badge_end_index(lines, i + 1, start)
    ELSE i

\* list.insert(i, x) for i <= len(lines)
list_insert(lines, i, x) == SubSeq(lines, 1, i) \o <<x>> \o SubSeq(lines, i + 1, Len(lines))

\* A badge section of its own made even next to an existing badge block.
add_badge_mutant(content, new_badge) ==
    LET lines == split(content)
        ii == insert_index(lines)
        be == badge_end_index(lines, ii, ii)
    IN join(list_insert(list_insert(list_insert(lines, be, <<>>), be + 1, new_badge), be + 2, <<>>))

\* The insertion branch of update_badge (no badge found).
add_badge(content, new_badge) ==
    LET lines == split(content)
        ii == insert_index(lines)
        be == badge_end_index(lines, ii, ii)
    IN IF be > ii
       THEN join(list_insert(lines, be, new_badge))
       ELSE join(list_insert(list_insert(list_insert(lines, ii, <<>>), ii + 1, new_badge), ii + 2, <<>>))

\* open(path, 'r').read(): universal newlines, "\r\n" is read as "\n".
f_read(bytes) == [i \in DOMAIN bytes |-> IF bytes[i] = "\r\n" THEN "\n" ELSE bytes[i]]

\* open(path, 'w').write(text): "\n" is written as os.linesep (POSIX).
LINESEP == "\n"
f_write(text) == [i \in DOMAIN text |-> IF text[i] = "\n" THEN LINESEP ELSE text[i]]

\* A missing README reported as a success.
NoReadme_mutant == [ok |-> TRUE, action |-> "README.md not found"]

\* return False, "README.md not found"
NoReadme == [ok |-> FALSE, action |-> "README.md not found"]

\* What a call leaves behind when open() or read() raises (no permission,
\* a directory in place of the file, undecodable bytes): no return value.
Raised(call, compliance_level) == [raised |-> "OSError", call |-> call, level |-> compliance_level]

\* update_badge(compliance_level): the returned tuple keeps its parts apart
\* (success, action word, level of the message).  Neither open() is inside
\* a try: with an unreadable README the first raises, with a read-only one
\* the second, before the file is touched.
update_badge(compliance_level) ==
    /\ ucalls < MaxUpdates
    /\ ucalls' = ucalls + 1
    /\ IF readme = NoFile
       THEN /\ last' = [ok |-> NoReadme.ok, action |-> NoReadme.action, level |-> compliance_level]
            /\ readme' = readme
       ELSE IF perm # "rw"
       THEN /\ last' = Raised("update_badge", compliance_level)
            /\ readme' = readme
       ELSE LET content == f_read(readme)
                new_badge == get_badge_for_level(compliance_level)
            IN IF has_badge(content)
               THEN /\ readme' = f_write(re_sub(new_badge, content))
                    /\ last' = [ok |-> TRUE, action |-> "Updated", level |-> compliance_level]
               ELSE /\ readme' = f_write(add_badge(content, new_badge))
                    /\ last' = [ok |-> TRUE, action |-> "Added", level |-> compliance_level]
    /\ UNCHANGED <<ai_dir, found, context, errors, report, calls, readme0, ext>>

\* The README.md files the updater is run on: up to MaxLines lines of these
\* kinds, ended by "\n" or by "\r\n".
LineKinds ==
    {<<>>, <<" ">>, <<"#", "x">>, <<"x">>,
     <<BUILD, "x", CLOSE, MID, "x", CLOSE>>,
     BADGE_TEMPLATES["Minimal"],
     <<OPEN, "x", CLOSE, MID, "x", CLOSE>>,
     <<OPEN, "x">>}

RECURSIVE LinesUpTo(_)
LinesUpTo(n) ==
    IF n = 0 THEN {<<>>}
    ELSE LinesUpTo(n - 1) \cup {Append(ls, l) : ls \in {x \in LinesUpTo(n - 1) : Len(x) = n - 1}, l \in LineKinds}

WithEol(text, eol) == [i \in DOMAIN text |-> IF text[i] = "\n" THEN eol ELSE text[i]]

Readmes == {WithEol(join(ls), eol) : ls \in LinesUpTo(MaxLines), eol \in {"\n", "\r\n"}}

\* The caller passes any string; the command line only the four tier names.
Levels == Tiers \cup {"Gold"}

BadgeInit ==
    /\ readme \in Readmes \cup {NoFile}
    /\ readme0 = readme
    /\ last = NoReturn
    /\ ucalls = 0
    /\ ai_dir = FALSE /\ found = {} /\ context = NoContext
    /\ errors = <<>> /\ report = NoReport /\ calls = 0
    /\ perm = "rw"
    /\ BootIdle
    /\ MeasureIdle
    /\ RaceIdle

BadgeNext == \E level \in Levels : update_badge(level)

BadgeSpec == BadgeInit /\ [][BadgeNext]_vars

\* ------------------------------------------------- update_badge.py main()
\* re.search(BADGE_PATTERN, content).group(0) of a content that has a match
group0(content) ==
    LET m == re_search(content, 1) IN SubSeq(content, m, BADGE_PATTERN(content, m))

\* check_badge_accuracy(compliance_level): (False, None) without README or
\* without badge, else whether the first badge is the expected text, and
\* that badge; the one open() is not inside a try.  Nothing is written.
check_badge_accuracy(compliance_level) ==
    /\ ucalls < MaxUpdates
    /\ ucalls' = ucalls + 1
    /\ readme' = readme
    /\ IF readme = NoFile
       THEN last' = [ok |-> FALSE, current |-> <<>>, level |-> compliance_level]
       ELSE IF perm = "unreadable"
       THEN last' = Raised("check_badge_accuracy", compliance_level)
       ELSE LET content == f_read(readme)
                expected_badge == get_badge_for_level(compliance_level)
            IN IF ~has_badge(content)
               THEN last' = [ok |-> FALSE, current |-> <<>>, level |-> compliance_level]
               ELSE last' = [ok |-> group0(content) = expected_badge,
                             current |-> group0(content), level |-> compliance_level]
    /\ UNCHANGED <<ai_dir, found, context, errors, report, calls, readme0, ext>>

\* main(): the exit code of the process for what update_badge or
\* check_badge_accuracy did: sys.exit(0) on success / accurate, sys.exit(1)
\* otherwise; an exception that leaves main ends the process with a
\* traceback and exit code 1.
update_badge_main(ret) ==
    IF "raised" \in DOMAIN ret THEN 1 ELSE IF ret.ok THEN 0 ELSE 1

\* The tier names argparse lets through (choices=).
Choices == {"None", "Minimal", "Standard", "Comprehensive"}

\* The script is run, in either mode, on a project with any README.md,
\* which may be read-only or unreadable.
CliInit ==
    /\ readme \in Readmes \cup {NoFile}
    /\ readme0 = readme
    /\ perm \in {"rw", "read_only", "unreadable"}
    /\ readme = NoFile => perm = "rw"
    /\ last = NoReturn
    /\ ucalls = 0
    /\ ai_dir = FALSE /\ found = {} /\ context = NoContext
    /\ errors = <<>> /\ report = NoReport /\ calls = 0
    /\ BootIdle
    /\ MeasureIdle
    /\ RaceIdle

CliNext ==
    \E level \in Choices : update_badge(level) \/ check_badge_accuracy(level)

CliSpec == CliInit /\ [][CliNext]_vars

\* ------------------------------------- update_badge.py, two invocations
\* The invocations that run at the same time on one README.md.
Updaters == {1, 2}

\* What the file holds after write() and close() of text through a
\* descriptor opened at offset 0: text and, when another invocation has
\* written more bytes since this one truncated the file, the rest of
\* those.  How many atoms of the file the bytes of text cover depends on
\* the text the atoms stand for: any proper tail may be left.
written(text, file) ==
    {text \o SubSeq(file, k, Len(file)) : k \in 2..(Len(file) + 1)} \cup {text}

\* Lines 47-83 of invocation p: the file is read and updated_content is
\* computed from what it holds at that moment.
read_content(p, compliance_level) ==
    /\ updater[p].pc = "start"
    /\ LET content == f_read(readme)
           new_badge == get_badge_for_level(compliance_level)
       IN updater' = [updater EXCEPT ![p] =
              [pc |-> "computed", level |-> compliance_level,
               action |-> IF has_badge(content) THEN "Updated" ELSE "Added",
               updated_content |-> IF has_badge(content) THEN re_sub(new_badge, content)
                                   ELSE add_badge(content, new_badge)]]
    /\ UNCHANGED <<ai_dir, found, context, errors, report, calls, readme, last, ucalls, readme0,
                   perm, project, analysis, bootstrap_run, measure>>

\* Line 86 of invocation p: open(path, 'w') truncates the file.
open_w(p) ==
    /\ updater[p].pc = "computed"
    /\ readme' = <<>>
    /\ updater' = [updater EXCEPT ![p].pc = "opened"]
    /\ UNCHANGED <<ai_dir, found, context, errors, report, calls, last, ucalls, readme0,
                   perm, project, analysis, bootstrap_run, measure>>

\* Lines 87-89 of invocation p: the content is written, the file closed
\* and the tuple returned.
write_content(p) ==
    /\ updater[p].pc = "opened"
    /\ readme' \in written(f_write(updater[p].updated_content), readme)
    /\ updater' = [updater EXCEPT ![p].pc = "done"]
    /\ last' = [ok |-> TRUE, action |-> updater[p].action, level |-> updater[p].level]
    /\ ucalls' = ucalls + 1
    /\ UNCHANGED <<ai_dir, found, context, errors, report, calls, readme0,
                   perm, project, analysis, bootstrap_run, measure>>

NotStarted == [pc |-> "start", level |-> "", action |-> "", updated_content |-> <<>>]

\* Two invocations are about to run on a README.md that exists and may be
\* read and written.
RaceInit ==
    /\ readme \in Readmes
    /\ readme0 = readme
    /\ updater = [p \in Updaters |-> NotStarted]
    /\ last = NoReturn /\ ucalls = 0
    /\ ai_dir = FALSE /\ found = {} /\ context = NoContext
    /\ errors = <<>> /\ report = NoReport /\ calls = 0
    /\ perm = "rw"
    /\ BootIdle
    /\ MeasureIdle

RaceNext ==
    \E p \in Updaters :
        \/ \E level \in Choices : read_content(p, level)
        \/ open_w(p)
        \/ write_content(p)

RaceSpec == RaceInit /\ [][RaceNext]_vars

\* ------------------------------------ validate.py, then update_badge.py
\* The optional files of the composition: one set for each tier.
ComposeFiles == {{}, {"architecture.yaml", "workflows.yaml"}, OptionalFiles}

\* A project with any README.md, without .ai/ or with a context.yaml that
\* is valid or does not parse, on which the validator is run, the badge of
\* the reported tier is written and the badge is checked.
ComposeInit ==
    /\ ai_dir \in BOOLEAN
    /\ context \in {ValidContext, Plain("yaml_error")}
    /\ found \in {fs \cup {"context.yaml"} : fs \in ComposeFiles}
    /\ ai_dir = FALSE => context = ValidContext
    /\ (~ai_dir \/ context # ValidContext) => found = {"context.yaml"}
    /\ errors = <<>> /\ report = NoReport /\ calls = 0
    /\ readme \in Readmes
    /\ readme0 = readme
    /\ last = NoReturn /\ ucalls = 0
    /\ perm = "rw"
    /\ BootIdle
    /\ MeasureIdle
    /\ RaceIdle

ComposeNext ==
    \/ validate
    \/ (report # NoReport /\ update_badge(report.compliance_level))
    \/ \E level \in Choices : check_badge_accuracy(level)

ComposeSpec == ComposeInit /\ [][ComposeNext]_vars

\* ------------------------------------------------------------ bootstrap.py
\* What _detect_project_name can find in a manifest: no file; a file that
\* open(), the parser or .get() raises on (unreadable, bad syntax, not a
\* table); a table without the name key; the key with a non-empty string
\* or with an empty (falsy) value.
ManifestStates == {"absent", "malformed", "no_name", "named", "empty_name"}

\* The project directories: base is Path(project_path).name, which is ""
\* for the default path '.'; tomli tells whether 'import tomli' succeeds.
Projects ==
    [base : {"proj", ""}, package_json : ManifestStates, requirements_txt : BOOLEAN,
     cargo_toml : ManifestStates, go_mod : BOOLEAN, tomli : BOOLEAN]

\* data.get('name', default) of a manifest whose name is written `named`.
manifest_name(state, named, default) ==
    IF state = "named" THEN named ELSE IF state = "empty_name" THEN "" ELSE default

\* _detect_project_name: package.json that loads returns its name or, with
\* no name key, the directory name; an exception is swallowed and Cargo.toml
\* is tried the same way (a failed 'import tomli' is such an exception);
\* else the directory name.
_detect_project_name(p) ==
    IF p.package_json \notin {"absent", "malformed"}
    THEN manifest_name(p.package_json, "pkg", p.base)
    ELSE IF p.cargo_toml \notin {"absent", "malformed"} /\ p.tomli
    THEN manifest_name(p.cargo_toml, "crate", p.base)
    ELSE p.base

\* The four "Detect languages" ifs, in their order: each marker found
\* appends its language and overwrites project_type.
Markers ==
    <<[file |-> "package_json", language |-> "javascript", type |-> "node-app"],
      [file |-> "requirements_txt", language |-> "python", type |-> "python-app"],
      [file |-> "cargo_toml", language |-> "rust", type |-> "rust-app"],
      [file |-> "go_mod", language |-> "go", type |-> "go-app"]>>

\* Path.exists() of marker i
exists(p, i) ==
    IF Markers[i].file \in {"package_json", "cargo_toml"}
    THEN p[Markers[i].file] # "absent" ELSE p[Markers[i].file]

RECURSIVE languages(_, _)
languages(p, i) ==
    IF i > Len(Markers) THEN <<>>
    ELSE (IF exists(p, i) THEN <<Markers[i].language>> ELSE <<>>) \o languages(p, i + 1)

\* An analysis that labels the project by the first marker found.
analyze_project_mutant(p) ==
    LET flags == [has_package_json |-> exists(p, 1), has_requirements_txt |-> exists(p, 2),
                  has_cargo_toml |-> exists(p, 3), has_go_mod |-> exists(p, 4),
                  languages |-> languages(p, 1),
                  project_name |-> _detect_project_name(p)]
        F == {i \in DOMAIN Markers : exists(p, i)}
    IN IF F = {} THEN flags
       ELSE flags @@ [project_type |-> Markers[Min(F)].type]

\* analyze_project: the returned dict (has_readme, has_makefile, frameworks
\* and project_path, which nothing reads, are left out); the key
\* project_type exists only when a marker was found, and the last marker
\* found has set it.
analyze_project(p) ==
    LET flags == [has_package_json |-> exists(p, 1), has_requirements_txt |-> exists(p, 2),
                  has_cargo_toml |-> exists(p, 3), has_go_mod |-> exists(p, 4),
                  languages |-> languages(p, 1),
                  project_name |-> _detect_project_name(p)]
        F == {i \in DOMAIN Markers : exists(p, i)}
    IN IF F = {} THEN flags
       ELSE flags @@ [project_type |-> Markers[CHOOSE i \in F : \A j \in F : j <= i].type]

\* How the validator sees a scalar that yaml.dump wrote: "" is falsy.
truthiness(value) == IF value = "" THEN "falsy" ELSE "ok"

\* The context.yaml of create_minimal_structure: version '1.0', the name
\* and type of the analysis (type 'application' without project_type), one
\* entrypoint and three common tasks.
context_template(a) ==
    [doc |-> "mapping", version |-> "ok", project |-> "mapping",
     name |-> truthiness(a.project_name),
     type |-> truthiness(IF "project_type" \in DOMAIN a THEN a.project_type ELSE "application"),
     entrypoints |-> "ok", common_tasks |-> "ok"]

\* A structure that reports only the files that were not there before.
minimal_structure_new_only(a, dir) ==
    [found |-> dir.found \cup {"context.yaml"},
     context |-> context_template(a),
     ai_readme |-> "template",
     result |-> [status |-> "success",
                 files_created |-> (IF dir.context = NoContext THEN <<"context.yaml">> ELSE <<>>)
                                     \o (IF dir.ai_readme = "no file" THEN <<"README.md">> ELSE <<>>)]]

\* create_minimal_structure on the .ai/ directory dir (makedirs with
\* exist_ok makes it if needed): context.yaml and README.md are opened with
\* 'w' and written from the templates, whatever was there; the returned
\* dict names the two files (its ai_dir string is left out).
minimal_structure(a, dir) ==
    [found |-> dir.found \cup {"context.yaml"},
     context |-> context_template(a),
     ai_readme |-> "template",
     result |-> [status |-> "success", files_created |-> <<"context.yaml", "README.md">>]]

\* bootstrap.py main(): analyze_project(), then create_minimal_structure
\* (create_with_ai does the same).
bootstrap_main ==
    /\ bcalls < MaxBoots
    /\ bcalls' = bcalls + 1
    /\ analysis' = analyze_project(project)
    /\ LET dir == minimal_structure(analysis',
                    [found |-> found, context |-> context, ai_readme |-> ai_readme])
       IN /\ ai_dir' = TRUE
          /\ found' = dir.found
          /\ context' = dir.context
          /\ ai_readme' = dir.ai_readme
          /\ result' = dir.result
    /\ UNCHANGED <<errors, report, calls, readme, last, ucalls, readme0, perm, project, measure, updater>>

\* A project of any kind on which bootstrap and the validator are run:
\* without .ai/, or with one that holds any optional files, no context.yaml
\* or one that does not parse, and no README.md or one of other content.
BootInit ==
    /\ project \in Projects
    /\ analysis = NoAnalysis /\ result = NoResult /\ bcalls = 0
    /\ ai_dir \in BOOLEAN
    /\ context \in {NoContext, Plain("yaml_error")}
    /\ ai_readme \in {"no file", "other"}
    /\ found \in SUBSET (OptionalFiles \cup {"context.yaml"})
    /\ "context.yaml" \in found <=> context # NoContext
    /\ ai_dir = FALSE => (found = {} /\ ai_readme = "no file")
    /\ errors = <<>> /\ report = NoReport /\ calls = 0
    /\ readme = NoFile /\ readme0 = NoFile /\ last = NoReturn /\ ucalls = 0
    /\ perm = "rw"
    /\ MeasureIdle
    /\ RaceIdle

BootNext == bootstrap_main \/ validate

BootSpec == BootInit /\ [][BootNext]_vars

\* ------------------------------------------- performance_measurement.py
\* No validator, badge updater or bootstrap run is part of the behaviour.
ToolingIdle ==
    /\ ai_dir = FALSE /\ found = {} /\ context = NoContext
    /\ errors = <<>> /\ report = NoReport /\ calls = 0
    /\ readme = NoFile /\ readme0 = NoFile /\ last = NoReturn /\ ucalls = 0
    /\ perm = "rw"
    /\ BootIdle
    /\ RaceIdle

\* Text is a sequence of characters; these stand for all of them: a letter
\* in both cases and a second letter.
Chars == {"a", "A", "b"}

\* str.lower()
lower_char(c) == IF c = "A" THEN "a" ELSE c
lower(str) == [i \in DOMAIN str |-> lower_char(str[i])]

\* kw in text: kw is a substring of text (the empty string of every text)
contains(text, kw) ==
    \E i \in 1..(Len(text) - Len(kw) + 1) : SubSeq(text, i, i + Len(kw) - 1) = kw

\* sum(1 for kw in expected_keywords if kw.lower() in answer_lower)
matches(answer_lower, keywords) ==
    Cardinality({i \in DOMAIN keywords : contains(answer_lower, lower(keywords[i]))})

\* check_answer: matches >= len(expected_keywords) // 2
check_answer_result(ans, keywords) ==
    matches(lower(ans), keywords) >= Len(keywords) \div 2

\* The call of check_answer on the answer of a provider.
check_answer ==
    /\ answer_found = "none"
    /\ answer_found' = IF check_answer_result(answer, expected_keywords) THEN "True" ELSE "False"
    /\ UNCHANGED <<ai_dir, found, context, errors, report, calls, readme, last, ucalls,
                   readme0, perm, project, analysis, bootstrap_run, answer, expected_keywords,
                   run, pos, attempts, results, proc,
                   updater>>

RECURSIVE SeqsUpTo(_, _)
SeqsUpTo(S, n) ==
    IF n = 0 THEN {<<>>}
    ELSE SeqsUpTo(S, n - 1) \cup {Append(x, e) : x \in {y \in SeqsUpTo(S, n - 1) : Len(y) = n - 1}, e \in S}

\* The keywords of the questions, as texts over Chars (the empty keyword
\* included: the type allows it).
Keywords == {<<>>, <<"a">>, <<"A">>, <<"b">>, <<"a", "b">>}

\* Any answer of up to MaxAnswer characters is checked against any list of
\* up to MaxKeywords keywords.
AnswerInit ==
    /\ answer \in SeqsUpTo(Chars, MaxAnswer)
    /\ expected_keywords \in SeqsUpTo(Keywords, MaxKeywords)
    /\ answer_found = "none"
    /\ ExperimentIdle
    /\ ToolingIdle

AnswerNext == check_answer

AnswerSpec == AnswerInit /\ [][AnswerNext]_vars

\* ------------------------------------------------ the measurement loops
\* The questions asked: the first two of TEST_QUESTIONS stand for the list.
TEST_QUESTIONS == <<"IR-001", "AU-001">>

FormatLists == {<<"README_ONLY">>, <<"README_ONLY", "AICAC_SELECTIVE">>}

\* performance_measurement.py: one provider and model for the whole run;
\* get_provider finds the provider's package missing ("unavailable"), or
\* its constructor raises ("unconstructible": no API key), or returns it.
PerformanceRuns ==
    [script : {"performance"}, trials : 0..MaxTrials, formats : FormatLists,
     models : {<<"default">>}, provider : {"ok", "unavailable", "unconstructible"}]

\* token_measurement.py: the models are the tokenizers installed (none,
\* one or both) unless --model names one.
TokenRuns ==
    [script : {"token"}, trials : 0..MaxTrials, formats : FormatLists,
     models : {<<>>, <<"gpt4">>, <<"gpt4", "claude">>}, provider : {"ok"}]

\* total = len(formats) * len(questions) * len(models) * trials
total(r) == Len(r.formats) * Len(TEST_QUESTIONS) * Len(r.models) * r.trials

\* The loop variables of the first pass.
first_pos == [pc |-> "loop", trial |-> 0, f |-> 1, q |-> 1, m |-> 1, current |-> 0]

\* Loops nested with the questions outside the formats.
advance_mutant(r, p) ==
    LET c == [p EXCEPT !.current = p.current + 1]
    IN IF p.m < Len(r.models) THEN [c EXCEPT !.m = p.m + 1]
       ELSE IF p.f < Len(r.formats) THEN [c EXCEPT !.m = 1, !.f = p.f + 1]
       ELSE IF p.q < Len(TEST_QUESTIONS) THEN [c EXCEPT !.m = 1, !.f = 1, !.q = p.q + 1]
       ELSE IF p.trial + 1 < r.trials THEN [c EXCEPT !.m = 1, !.q = 1, !.f = 1, !.trial = p.trial + 1]
       ELSE [pc |-> "save", current |-> p.current + 1]

\* for trial in range(trials): for fmt in formats: for q in questions:
\* (for model in models:) -- the loop variables after one more pass, or the
\* end of the loops.
advance(r, p) ==
    LET c == [p EXCEPT !.current = p.current + 1]
    IN IF p.m < Len(r.models) THEN [c EXCEPT !.m = p.m + 1]
       ELSE IF p.q < Len(TEST_QUESTIONS) THEN [c EXCEPT !.m = 1, !.q = p.q + 1]
       ELSE IF p.f < Len(r.formats) THEN [c EXCEPT !.m = 1, !.q = 1, !.f = p.f + 1]
       ELSE IF p.trial + 1 < r.trials THEN [c EXCEPT !.m = 1, !.q = 1, !.f = 1, !.trial = p.trial + 1]
       ELSE [pc |-> "save", current |-> p.current + 1]

\* main() up to the loops.  performance: get_provider is called outside any
\* try, so a provider that is not available or cannot be made ends the
\* process with a traceback.  token: run_experiment raises RuntimeError
\* without a tokenizer and main's except returns 1.
run_experiment ==
    /\ pos.pc = "start"
    /\ IF run.script = "performance" /\ run.provider # "ok"
       THEN /\ proc' = [exit |-> 1, uncaught |-> TRUE]
            /\ pos' = [pc |-> "done", current |-> 0]
       ELSE IF run.script = "token" /\ run.models = <<>>
       THEN /\ proc' = [exit |-> 1, uncaught |-> FALSE]
            /\ pos' = [pc |-> "done", current |-> 0]
       ELSE /\ proc' = proc
            /\ pos' = IF total(run) = 0 THEN [pc |-> "save", current |-> 0] ELSE first_pos
    /\ UNCHANGED <<ai_dir, found, context, errors, report, calls, readme, last, ucalls,
                   readme0, perm, project, analysis, bootstrap_run, answer, expected_keywords, answer_found,
                   run, attempts, results,
                   updater>>

\* One pass through the loop body: current += 1, then the try block; an
\* exception in loading, querying or counting is caught and printed, else
\* the measurement is appended to the results.
measurement ==
    /\ pos.pc = "loop"
    /\ \E failed \in BOOLEAN :
          /\ failed => Len(attempts) - Len(results) < MaxFailures
          /\ LET m == [format |-> run.formats[pos.f], question_id |-> TEST_QUESTIONS[pos.q],
                       model |-> run.models[pos.m]]
             IN /\ attempts' = Append(attempts, [current |-> pos.current + 1, trial |-> pos.trial,
                                                 measurement |-> m, error |-> failed])
                /\ results' = IF failed THEN results ELSE Append(results, m)
    /\ pos' = advance(run, pos)
    /\ UNCHANGED <<ai_dir, found, context, errors, report, calls, readme, last, ucalls,
                   readme0, perm, project, analysis, bootstrap_run, answer, expected_keywords, answer_found,
                   run, proc,
                   updater>>

\* After the loops: the results are written with total_measurements =
\* len(results) and main returns 0.
save_results ==
    /\ pos.pc = "save"
    /\ proc' = [exit |-> 0, uncaught |-> FALSE, total_measurements |-> Len(results)]
    /\ pos' = [pc |-> "done", current |-> pos.current]
    /\ UNCHANGED <<ai_dir, found, context, errors, report, calls, readme, last, ucalls,
                   readme0, perm, project, analysis, bootstrap_run, answer, expected_keywords, answer_found,
                   run, attempts, results,
                   updater>>

ExperimentInit ==
    /\ run \in PerformanceRuns \cup TokenRuns
    /\ pos = [pc |-> "start", current |-> 0]
    /\ attempts = <<>> /\ results = <<>> /\ proc = NoProc
    /\ answer = <<>> /\ expected_keywords = <<>> /\ answer_found = "none"
    /\ ToolingIdle

ExperimentNext == run_experiment \/ measurement \/ save_results

ExperimentSpec == ExperimentInit /\ [][ExperimentNext]_vars

\* ------------------------------------------------------------ the programs
\* A run of the badge updater or of a measurement script.
ProgramsInit == CliInit \/ ExperimentInit

ProgramsNext == CliNext \/ ExperimentNext

ProgramsSpec == ProgramsInit /\ [][ProgramsNext]_vars

\* ================================================================ claims
\* A step of the validator specification is a validate() call exactly when
\* it counts one.
IsValidateStep == calls' = calls + 1

\* The data model's notion of a valid descriptor: a parsed mapping whose
\* version, project.name, project.type, entrypoints and common_tasks are all
\* present and non-empty.
DescriptorValid(c) ==
    /\ c.doc = "mapping" /\ c.version = "ok"
    /\ c.project = "mapping" /\ c.name = "ok" /\ c.type = "ok"
    /\ c.entrypoints = "ok" /\ c.common_tasks = "ok"

TierOfCount(k) ==
    IF k = 4 THEN "Comprehensive" ELSE IF k \in {2, 3} THEN "Standard" ELSE "Minimal"

\* C1: with context.yaml present and valid, validate() reports Minimal for 0
\* or 1 optional files, Standard for 2 or 3 and Comprehensive only for all 4,
\* whichever files they are.
C1_TierByOptionalCount ==
    [][(IsValidateStep /\ ai_dir /\ "context.yaml" \in found /\ DescriptorValid(context))
         => /\ report'.compliance_level = TierOfCount(Cardinality(found \cap OptionalFiles))
            /\ report'.valid]_vars

\* A report of Standard made with three optional files present.
C1_Witness ==
    /\ "found_files" \in DOMAIN report
    /\ report.context_valid
    /\ Cardinality({f \in OptionalFiles : report.found_files[f]}) = 3
    /\ report.compliance_level = "Standard"

\* C2: with .ai/ present and context.yaml absent or invalid, validate()
\* reports tier None and valid = false, however many optional files exist.
C2_InvalidContextIsNone ==
    [][(IsValidateStep /\ ai_dir /\ ("context.yaml" \notin found \/ ~DescriptorValid(context)))
         => /\ report'.compliance_level = "None"
            /\ report'.valid = FALSE]_vars

\* A report of None for a context.yaml that lacks only its common tasks,
\* beside all four optional files.
C2_Witness ==
    /\ "found_files" \in DOMAIN report
    /\ \A f \in DOMAIN report.found_files : report.found_files[f]
    /\ report.compliance_level = "None"
    /\ report.errors # <<>>
    /\ report.errors[Len(report.errors)] = E_task

\* C3: without .ai/, validate() returns tier None, valid = false and the
\* directory-not-found error, reports no file or field check and leaves the
\* validator's error list as it was.
C3_NoDirectoryIsTerminal ==
    [][(IsValidateStep /\ ~ai_dir)
         => /\ report'.valid = FALSE
            /\ report'.compliance_level = "None"
            /\ report'.error = ".ai/ directory not found"
            /\ DOMAIN report' \cap {"found_files", "context_valid", "errors"} = {}
            /\ errors' = errors]_vars

\* The early return taken by a validator that already holds an error.
C3_Witness ==
    /\ ~ai_dir
    /\ "error" \in DOMAIN report
    /\ errors # <<>>

\* ---------------------------------------------------- badge updater claims
IsUpdateStep == ucalls' = ucalls + 1

\* The number of non-overlapping matches of the recognition pattern in s.
RECURSIVE MatchesFrom(_, _)
MatchesFrom(s, i) ==
    LET m == re_search(s, i)
    IN IF m = 0 THEN 0 ELSE 1 + MatchesFrom(s, BADGE_PATTERN(s, m) + 1)

NumMatches(s) == MatchesFrom(s, 1)

NumOpeners(s) == Cardinality({i \in 1..Len(s) : s[i] = OPEN})

\* The text of the leftmost match of s (s holds one).
FirstMatchText(s) == SubSeq(s, re_search(s, 1), BADGE_PATTERN(s, re_search(s, 1)))

\* The pieces of s outside its matches, in order.
RECURSIVE OutsideFrom(_, _)
OutsideFrom(s, i) ==
    LET m == re_search(s, i)
    IN IF m = 0 THEN <<SubSeq(s, i, Len(s))>>
       ELSE <<SubSeq(s, i, m - 1)>> \o OutsideFrom(s, BADGE_PATTERN(s, m) + 1)

Outside(s) == OutsideFrom(s, 1)

Occurs(piece, s) ==
    \E i \in 1..(Len(s) - Len(piece) + 1) : SubSeq(s, i, i + Len(piece) - 1) = piece

\* The badge encoding table: label and colour of each tier.
TierLabel(t) ==
    CASE t = "Comprehensive" -> "Comprehensive" [] t = "Standard" -> "Standard"
      [] t = "Minimal" -> "Minimal" [] OTHER -> "Not%20Adopted"

TierColor(t) ==
    CASE t = "Comprehensive" -> "success" [] t = "Standard" -> "brightgreen"
      [] t = "Minimal" -> "green" [] OTHER -> "red"

TableBadge(t) ==
    <<OPEN, SHIELDS, TierLabel(t), "-", TierColor(t), ".svg", CLOSE, MID, LINK, CLOSE>>

\* A README with at most one recognised badge and no "[![AICaC](" opener
\* apart from the one that starts it.
AtMostOneBadge(s) == NumMatches(s) <= 1 /\ NumOpeners(s) = NumMatches(s)

\* C4 as stated: after a successful update_badge on any README, the README
\* holds exactly one match of the recognition pattern, the badge text of
\* the target tier.
C4_ExactlyOneBadge_AnyReadme ==
    [][(IsUpdateStep /\ readme # NoFile /\ last'.level \in Tiers)
         => /\ last'.ok
            /\ NumMatches(readme') = 1
            /\ FirstMatchText(readme') = TableBadge(last'.level)]_vars

\* C4 amended: the same for a README that held at most one recognised badge
\* and no other "[![AICaC](" opener.
C4_ExactlyOneBadge ==
    [][(IsUpdateStep /\ readme # NoFile /\ last'.level \in Tiers /\ AtMostOneBadge(readme))
         => /\ last'.ok
            /\ NumMatches(readme') = 1
            /\ FirstMatchText(readme') = TableBadge(last'.level)]_vars

\* A badge with some other URL, not at the start of the README, replaced by
\* the first call.
C4_Witness ==
    /\ ucalls = 1 /\ last.ok /\ last.action = "Updated"
    /\ AtMostOneBadge(readme0) /\ re_search(readme0, 1) > 1
    /\ FirstMatchText(readme0) # TableBadge("Minimal")
    /\ NumMatches(readme) = 1

\* C5: a second update_badge with the same tier reports 'Updated' and leaves
\* the README as the first call left it.
C5_Idempotent ==
    [][(IsUpdateStep /\ ucalls > 0 /\ last.ok /\ last'.level = last.level)
         => /\ last'.ok /\ last'.action = "Updated"
            /\ readme' = readme]_vars

\* C6: from a README without a recognised badge, every call leaves exactly
\* one recognised badge; the first call reports 'Added' and the later ones
\* 'Updated'; the badge text of the latest tier is in the README and the
\* label of the tier before it is not.
C6_Lifecycle ==
    [][(IsUpdateStep /\ readme0 # NoFile /\ ~has_badge(f_read(readme0)))
         => /\ last'.ok
            /\ last'.action = (IF ucalls = 0 THEN "Added" ELSE "Updated")
            /\ NumMatches(readme') = 1
            /\ Occurs(TableBadge(last'.level), readme')
            /\ (ucalls > 0 /\ TierLabel(last.level) # TierLabel(last'.level))
                 => \A i \in 1..Len(readme') : readme'[i] # TierLabel(last.level)]_vars

\* The third call of a run that began without a badge, with a heading.
C6_Witness ==
    /\ ucalls = 3 /\ readme0 # NoFile /\ ~has_badge(f_read(readme0))
    /\ \E i \in 1..Len(readme0) : readme0[i] = "#"
    /\ last.action = "Updated" /\ last.level = "Comprehensive"
    /\ Occurs(TableBadge("Comprehensive"), readme)

\* C7: when the README holds a recognised badge, update_badge leaves every
\* piece of the file outside the matches as it was, and the (first) badge
\* starts where it started.
C7_OnlyBadgeChanges ==
    [][(IsUpdateStep /\ readme # NoFile /\ has_badge(f_read(readme)))
         => /\ Outside(readme') = Outside(readme)
            /\ re_search(readme', 1) = re_search(readme, 1)]_vars

\* C8: without a README.md, update_badge returns (False, 'README.md not
\* found') and no file is created.
C8_NoReadme ==
    [][(IsUpdateStep /\ readme = NoFile)
         => /\ last'.ok = FALSE
            /\ last'.action = "README.md not found"
            /\ readme' = NoFile]_vars

C8_Witness == ucalls > 0 /\ readme = NoFile /\ last.action = "README.md not found"

\* The number of badges of s with the label Build.
NumBuild(s) == Cardinality({i \in 1..Len(s) : s[i] = BUILD})

\* C9: a README without the text "[![AICaC](" has no recognised badge, and
\* update_badge never removes or alters a badge with another label.
C9_OnlyAICaCLabel ==
    [][(IsUpdateStep /\ readme # NoFile)
         => /\ NumBuild(readme') = NumBuild(readme)
            /\ (NumOpeners(readme) = 0 => last'.action = "Added")]_vars

\* C10: on a README with at most one badge, the badge the updater leaves is
\* the markdown the validator recommends for the same level, with the label
\* and colour of the encoding table; a level that is no tier gives the None
\* badge.
C10_SharedEncoding ==
    (ucalls > 0 /\ last.ok /\ AtMostOneBadge(readme0))
      => /\ FirstMatchText(readme) = _get_badge_markdown(last.level)
         /\ FirstMatchText(readme) = TableBadge(last.level)
         /\ last.level \notin Tiers => FirstMatchText(readme) = _get_badge_markdown("None")

\* The updater called with a level that is no tier.
C10_Witness ==
    /\ ucalls > 0 /\ last.ok /\ AtMostOneBadge(readme0)
    /\ last.level = "Gold"
    /\ FirstMatchText(readme) = TableBadge("None")

\* The six parts of a full report: validity, tier, presence map, validity of
\* context.yaml, error list, recommended badge.
ReportParts == {"valid", "compliance_level", "found_files", "context_valid", "errors", "badge"}

\* C11 as stated: every report returned by validate(), with or without
\* .ai/, holds the six parts.
C11_ReportParts_EveryOutcome ==
    [][IsValidateStep => ReportParts \subseteq DOMAIN report']_vars

\* C11: a report returned by validate() when .ai/ exists holds the validity
\* flag, the tier, the presence map of all five files, the validity of
\* context.yaml, the validator's error list and the badge of the tier; the
\* report returned when .ai/ is missing holds only the validity flag, the
\* tier, an error and a recommendation.
C11_ReportParts ==
    [][IsValidateStep =>
         IF ai_dir
         THEN /\ ReportParts \subseteq DOMAIN report'
              /\ report'.valid \in BOOLEAN
              /\ report'.compliance_level \in Tiers
              /\ DOMAIN report'.found_files = DOMAIN REQUIRED_FILES
              /\ report'.context_valid \in BOOLEAN
              /\ report'.errors = errors'
              /\ report'.badge = _get_badge_recommendation(report'.compliance_level)
         ELSE DOMAIN report' = {"valid", "compliance_level", "error", "recommendation"}]_vars

\* A full report of a valid project.
C11_Witness ==
    /\ ReportParts \subseteq DOMAIN report
    /\ report.valid
    /\ report.badge = _get_badge_recommendation("Standard")

\* The message each unusable context.yaml ends with.
ContextMessage(c) ==
    IF c.doc = "yaml_error" THEN E_yaml
    ELSE IF c.doc \in {"unreadable", "not_mapping"} THEN E_read
    ELSE IF c.version # "ok" THEN E_version
    ELSE IF c.project = "not_mapping" THEN E_read
    ELSE IF c.project = "absent" \/ c.name # "ok" THEN E_name
    ELSE IF c.type # "ok" THEN E_type
    ELSE IF c.entrypoints # "ok" THEN E_entry
    ELSE E_task

\* C12: validate() on a project whose context.yaml exists but cannot be
\* read, is not YAML, is empty or not a mapping, has a 'project' that is not
\* a mapping or lacks a required field returns a report (it does not raise)
\* of tier None, and the report's error list is the former list with the
\* message of that failure appended last.
C12_NeverRaises ==
    [][(IsValidateStep /\ ai_dir /\ "context.yaml" \in found /\ ~DescriptorValid(context))
         => /\ "errors" \in DOMAIN report'
            /\ report'.compliance_level = "None"
            /\ report'.context_valid = FALSE
            /\ report'.errors = Append(errors, ContextMessage(context))]_vars

\* A report for a context.yaml whose 'project' is not a mapping.
C12_Witness ==
    /\ calls > 0 /\ ai_dir
    /\ context.doc = "mapping" /\ context.version = "ok" /\ context.project = "not_mapping"
    /\ "errors" \in DOMAIN report
    /\ report.compliance_level = "None"
    /\ report.errors # <<>>
    /\ report.errors[Len(report.errors)] = E_read

\* C16: every report of validate() has valid = true exactly when its tier is
\* not None, and the validator's process exits 0 exactly when the tier is
\* not None and 1 otherwise.
C16_ValidIffTier ==
    [][IsValidateStep
         => /\ report'.valid <=> (report'.compliance_level # "None")
            /\ validate_main(report') = (IF report'.compliance_level # "None" THEN 0 ELSE 1)]_vars

\* A valid report made by a validator that holds errors of an earlier call.
C16_Witness ==
    /\ "errors" \in DOMAIN report
    /\ report.errors # <<>>
    /\ report.valid
    /\ validate_main(report) = 0

\* The name a first-match-wins chain gives: the name field of package.json
\* when the file has one, else package.name of Cargo.toml when that can be
\* read and has one, else the base name of the directory.
ChainName(p) ==
    IF p.package_json = "named" THEN "pkg"
    ELSE IF p.package_json = "empty_name" THEN ""
    ELSE IF p.tomli /\ p.cargo_toml = "named" THEN "crate"
    ELSE IF p.tomli /\ p.cargo_toml = "empty_name" THEN ""
    ELSE p.base

\* C13: the detected project name is package.json's name, else Cargo.toml's
\* package.name, else the directory's base name, a source that is malformed
\* or has no name falling through to the next one: a package.json without a
\* name does not keep Cargo.toml from being tried.
C13_FirstMatchChain ==
    analysis # NoAnalysis => analysis.project_name = ChainName(project)

MarkerCount(p) ==
    Cardinality({f \in {"package_json", "cargo_toml"} : p[f] # "absent"}
                  \cup {f \in {"requirements_txt", "go_mod"} : p[f]})

\* The flags of the analysis tell which marker files exist; with no marker
\* the language list is empty, there is no project type and the name is the
\* directory's base name.
FlagsAndNoMarker ==
    /\ analysis.has_package_json <=> (project.package_json # "absent")
    /\ analysis.has_requirements_txt <=> project.requirements_txt
    /\ analysis.has_cargo_toml <=> (project.cargo_toml # "absent")
    /\ analysis.has_go_mod <=> project.go_mod
    /\ MarkerCount(project) = 0 =>
         /\ analysis.languages = <<>>
         /\ "project_type" \notin DOMAIN analysis
         /\ analysis.project_name = project.base

\* C14 as stated: the analysis has a project type when, and only when,
\* exactly one marker is found, and it is that marker's type.
C14_TypeIffOneMarker ==
    analysis # NoAnalysis =>
        /\ FlagsAndNoMarker
        /\ ("project_type" \in DOMAIN analysis) <=> (MarkerCount(project) = 1)

\* C14: the analysis tells for each of the four markers whether the file
\* exists and has a project type when, and only when, at least one marker
\* is found: go-app with go.mod, else rust-app with Cargo.toml, else
\* python-app with requirements.txt, else node-app; with no marker the
\* language list is empty and the name is the directory's base name.
C14_TypeOfLastMarker ==
    analysis # NoAnalysis =>
        /\ FlagsAndNoMarker
        /\ ("project_type" \in DOMAIN analysis) <=> (MarkerCount(project) >= 1)
        /\ MarkerCount(project) >= 1 =>
             analysis.project_type =
                (IF project.go_mod THEN "go-app"
                 ELSE IF project.cargo_toml # "absent" THEN "rust-app"
                 ELSE IF project.requirements_txt THEN "python-app"
                 ELSE "node-app")

\* The analysis of a project with package.json and go.mod.
C14_Witness ==
    /\ analysis # NoAnalysis
    /\ analysis.has_package_json /\ analysis.has_go_mod
    /\ analysis.languages = <<"javascript", "go">>
    /\ analysis.project_type = "go-app"

\* C17: the context.yaml that bootstrap writes has every required field
\* filled, for every project directory, and a validator run after bootstrap
\* reports a tier other than None.
C17_BootstrapValidates ==
    [][/\ (analysis' # NoAnalysis /\ analysis = NoAnalysis) => DescriptorValid(context')
       /\ (IsValidateStep /\ analysis # NoAnalysis) => report'.compliance_level # "None"]_vars

\* A step of update_badge.py in update mode, in check-only mode.
UpdateMode ==
    /\ IsUpdateStep
    /\ ("raised" \in DOMAIN last' /\ last'.call = "update_badge") \/ "action" \in DOMAIN last'

CheckOnlyMode ==
    /\ IsUpdateStep
    /\ ("raised" \in DOMAIN last' /\ last'.call = "check_badge_accuracy") \/ "current" \in DOMAIN last'

\* The README holds an AICaC badge and its first one is the badge of tier t.
BadgeAccurate(bytes, t) ==
    /\ bytes # NoFile
    /\ NumMatches(f_read(bytes)) >= 1
    /\ FirstMatchText(f_read(bytes)) = TableBadge(t)

\* C15: in update mode the process exits 0 exactly when README.md exists and
\* 1 otherwise; in check-only mode it exits 0 exactly when README.md exists,
\* holds an AICaC badge and the first one is the badge text of the given
\* tier, 1 otherwise, and the README is not modified.
C15_CliExitCodes ==
    [][/\ UpdateMode => update_badge_main(last') = (IF readme # NoFile THEN 0 ELSE 1)
       /\ CheckOnlyMode =>
            /\ update_badge_main(last') = (IF BadgeAccurate(readme, last'.level) THEN 0 ELSE 1)
            /\ readme' = readme]_vars

\* The number of expected keywords that occur in the answer, letter case
\* ignored.
Folded(str) == [i \in DOMAIN str |-> IF str[i] \in {"a", "A"} THEN "a" ELSE str[i]]

KeywordsPresent ==
    Cardinality({i \in DOMAIN expected_keywords : Occurs(Folded(expected_keywords[i]), Folded(answer))})

\* C18: check_answer returns true exactly when at least half of the
\* expected keywords occur in the answer, compared without regard to case:
\* twice the number of keywords present is at least the number of keywords,
\* for every size of the list.
C18_AtLeastHalf ==
    answer_found # "none" =>
        (answer_found = "True" <=> 2 * KeywordsPresent >= Len(expected_keywords))

\* The k-th combination of the nested loops (k from 1): trials outermost,
\* then formats, then questions, then models.
Combination(r, k) ==
    LET M == Len(r.models)
        Q == Len(TEST_QUESTIONS)
        F == Len(r.formats)
        n == k - 1
    IN [trial |-> n \div (M * Q * F),
        measurement |-> [format |-> r.formats[((n \div (M * Q)) % F) + 1],
                         question_id |-> TEST_QUESTIONS[((n \div M) % Q) + 1],
                         model |-> r.models[(n % M) + 1]]]

\* The measurements of the passes that did not fail, in their order.
RECURSIVE Succeeded(_)
Succeeded(as) ==
    IF as = <<>> THEN <<>>
    ELSE Succeeded(SubSeq(as, 1, Len(as) - 1))
           \o (IF as[Len(as)].error THEN <<>> ELSE <<as[Len(as)].measurement>>)

\* C19: the k-th pass through the loop body attempts the k-th combination
\* of (trial, format, question, model) in nested-loop order, so each is
\* attempted once; a failed pass leaves the results as they were and the
\* loops go on; when the loops end every combination has been attempted,
\* and the results, and the total_measurements saved, are the measurements
\* of the passes that did not fail.
C19_EveryCombinationOnce ==
    /\ \A k \in DOMAIN attempts :
          /\ attempts[k].current = k
          /\ attempts[k].trial = Combination(run, k).trial
          /\ attempts[k].measurement = Combination(run, k).measurement
    /\ results = Succeeded(attempts)
    /\ pos.pc = "loop" => Len(attempts) < total(run)
    /\ pos.pc = "save" => Len(attempts) = total(run)
    /\ (pos.pc = "done" /\ proc.exit = 0) =>
          /\ Len(attempts) = total(run)
          /\ proc.total_measurements = Len(results)

\* A finished run of both formats and both tokenizers in which a pass
\* failed before the last and the last succeeded.
C19_Witness ==
    /\ pos.pc = "done" /\ proc.exit = 0
    /\ Len(run.formats) = 2 /\ Len(run.models) = 2 /\ run.trials = 2
    /\ attempts[3].error /\ ~attempts[Len(attempts)].error
    /\ Len(results) = total(run) - 2

\* C20: no run of a program ends in an uncaught exception: a missing or
\* unusable resource or provider becomes status output and an exit code.
C20_NoErrorIsFatal ==
    /\ "raised" \notin DOMAIN last
    /\ proc # NoProc => ~proc.uncaught

\* The errors of one call, from the files present at that call.
ErrorsOfFiles(fs, c) ==
    IF "context.yaml" \notin fs THEN <<E_missing>>
    ELSE IF ~DescriptorValid(c) THEN <<ContextMessage(c)>>
    ELSE <<>>

\* C21: each validate() call reports from the files present at that call
\* alone: the tier, validity and presence map are those of the files, and
\* the error list holds only the errors of that call, whatever earlier calls
\* on the same validator object found.
C21_FreshReport ==
    [][(IsValidateStep /\ ai_dir)
         => /\ report'.found_files = [f \in DOMAIN REQUIRED_FILES |-> f \in found]
            /\ report'.context_valid = ("context.yaml" \in found /\ DescriptorValid(context))
            /\ report'.valid = report'.context_valid
            /\ report'.errors = ErrorsOfFiles(found, context)]_vars

\* The checks of context.yaml in their order, each with whether it fails
\* on c and the message it then leaves (a check that raises leaves the
\* message of the exception handler).
Checks(c) ==
    <<[fails |-> c.doc # "mapping",
       message |-> IF c.doc = "yaml_error" THEN E_yaml ELSE E_read],
      [fails |-> c.version # "ok", message |-> E_version],
      [fails |-> c.project # "mapping" \/ c.name # "ok",
       message |-> IF c.project = "not_mapping" THEN E_read ELSE E_name],
      [fails |-> c.type # "ok", message |-> E_type],
      [fails |-> c.entrypoints # "ok", message |-> E_entry],
      [fails |-> c.common_tasks # "ok", message |-> E_task]>>

FirstFailing(c) == Min({i \in DOMAIN Checks(c) : Checks(c)[i].fails})

\* C22: the checks of context.yaml run in the order parse, version,
\* project.name, project.type, entrypoints, common_tasks and stop at the
\* first that fails: the run appends exactly one message, that of the first
\* failing check, however many later checks would fail too.
C22_ShortCircuit ==
    [][(IsValidateStep /\ ai_dir /\ "context.yaml" \in found
          /\ \E i \in DOMAIN Checks(context) : Checks(context)[i].fails)
         => /\ Len(errors') = Len(errors) + 1
            /\ SubSeq(errors', 1, Len(errors)) = errors
            /\ errors'[Len(errors')] = Checks(context)[FirstFailing(context)].message
            /\ report'.context_valid = FALSE]_vars

\* A report for a context.yaml without a version and without entrypoints:
\* only the version is reported.
C22_Witness ==
    /\ calls = 1 /\ ai_dir /\ "context.yaml" \in found
    /\ context.doc = "mapping" /\ context.version = "falsy" /\ context.entrypoints = "falsy"
    /\ "errors" \in DOMAIN report
    /\ report.errors = <<E_version>>

Rank(t) ==
    CASE t = "None" -> 0 [] t = "Minimal" -> 1 [] t = "Standard" -> 2 [] t = "Comprehensive" -> 3

ReportedOptional(r) == {f \in OptionalFiles : r.found_files[f]}

\* C28: between two validate() calls that both find a valid context.yaml,
\* if optional files were only added the tier has not gone down in the
\* order None < Minimal < Standard < Comprehensive, and if optional files
\* were only removed it has not gone up.
C28_TierMonotone ==
    [][(IsValidateStep /\ ai_dir /\ "found_files" \in DOMAIN report /\ report.context_valid
          /\ "context.yaml" \in found /\ DescriptorValid(context))
         => /\ ReportedOptional(report) \subseteq found
                 => Rank(report'.compliance_level) >= Rank(report.compliance_level)
            /\ found \cap OptionalFiles \subseteq ReportedOptional(report)
                 => Rank(report'.compliance_level) <= Rank(report.compliance_level)]_vars

\* The second report of a validator that never saw an error: Standard for
\* three optional files.
C28_Witness ==
    /\ calls = 2 /\ "found_files" \in DOMAIN report
    /\ report.errors = <<>>
    /\ report.compliance_level = "Standard"
    /\ Cardinality(ReportedOptional(report)) = 3

\* A step in which update_badge added a badge; the lines of the README
\* before and after it, and the badge added.
AddStep == IsUpdateStep /\ "action" \in DOMAIN last' /\ last'.action = "Added"
LinesBefore == split(f_read(readme))
LinesAfter == split(f_read(readme'))
AddedBadge == TableBadge(last'.level)

BadgeLike(line) == \E i \in DOMAIN line : line[i] \in {OPEN, BUILD}
Blank(line) == \A i \in DOMAIN line : line[i] \in {" ", "\t"}

\* The number of lines up to and including the first heading, 0 without one.
AfterHeading(lines) ==
    IF \E i \in DOMAIN lines : Len(lines[i]) > 0 /\ lines[i][1] = "#"
    THEN Min({i \in DOMAIN lines : Len(lines[i]) > 0 /\ lines[i][1] = "#"})
    ELSE 0

\* The number of lines a scan absorbs that starts after line h and takes a
\* line that is badge-like or, not being the first line scanned, blank.
RECURSIVE AbsorbedTo(_, _, _)
AbsorbedTo(lines, h, n) ==
    IF h + n < Len(lines)
         /\ (BadgeLike(lines[h + n + 1]) \/ (n > 0 /\ Blank(lines[h + n + 1])))
    THEN AbsorbedTo(lines, h, n + 1) ELSE n

Absorbed(lines) == AbsorbedTo(lines, AfterHeading(lines), 0)

\* The same for a scan that takes a blank line only directly after a
\* badge-like line.
RECURSIVE SingleBlankAbsorbedTo(_, _, _)
SingleBlankAbsorbedTo(lines, h, n) ==
    IF h + n < Len(lines)
         /\ (BadgeLike(lines[h + n + 1])
               \/ (n > 0 /\ Blank(lines[h + n + 1]) /\ BadgeLike(lines[h + n])))
    THEN SingleBlankAbsorbedTo(lines, h, n + 1) ELSE n

InsertLines(lines, at, new) == SubSeq(lines, 1, at) \o new \o SubSeq(lines, at + 1, Len(lines))

BadgeLine == Min({k \in DOMAIN LinesAfter : LinesAfter[k] = AddedBadge})

\* C24 as stated: the scan starts after the first heading and absorbs a
\* line only if it is badge-like or a single blank line directly after a
\* badge, so the badge is added right after the lines so absorbed.
C24_SingleBlankScan ==
    [][AddStep =>
         LET h == AfterHeading(LinesBefore)
             a == SingleBlankAbsorbedTo(LinesBefore, h, 0)
         IN BadgeLine = (IF a >= 1 THEN h + a + 1 ELSE h + 2)]_vars

\* C24: the scan starts at the line after the first heading and absorbs a
\* line if it is badge-like or, not being the first line scanned, blank
\* (so any run of blank lines after an absorbed line is absorbed, a blank
\* line directly after the heading is not); it stops at the first line
\* that is neither, and the badge is added right after the absorbed lines.
C24_BlankRunScan ==
    [][AddStep =>
         LET h == AfterHeading(LinesBefore)
             a == Absorbed(LinesBefore)
         IN /\ BadgeLine = (IF a >= 1 THEN h + a + 1 ELSE h + 2)
            /\ (h < Len(LinesBefore) /\ Blank(LinesBefore[h + 1])) => a = 0
            /\ \A k \in (h + 1)..(h + a) : BadgeLike(LinesBefore[k]) \/ (k > h + 1 /\ Blank(LinesBefore[k]))
            /\ h + a < Len(LinesBefore) =>
                 ~BadgeLike(LinesBefore[h + a + 1]) /\ (a = 0 \/ ~Blank(LinesBefore[h + a + 1]))]_vars

\* A badge added after a badge and a run of two blank lines.
C24_Witness ==
    /\ ucalls = 1 /\ "action" \in DOMAIN last /\ last.action = "Added"
    /\ LET l0 == split(f_read(readme0))
           l1 == split(f_read(readme))
       IN /\ Len(l0) = 3 /\ BadgeLike(l0[1]) /\ l0[2] = <<>> /\ l0[3] = <<>>
          /\ l1 = Append(l0, TableBadge(last.level))

\* A line that is one unrelated badge.
BuildLine == <<BUILD, "x", CLOSE, MID, "x", CLOSE>>

\* C25: for a README without a heading the same logic runs from line 0 (the
\* badge goes after the block absorbed from the top, or blank, badge, blank
\* go to the very top); a README that is two unrelated badges then holds
\* three badge-like lines, the new badge after the second with at most one
\* empty line between.
C25_NoHeading ==
    [][(AddStep /\ AfterHeading(LinesBefore) = 0) =>
         LET a == AbsorbedTo(LinesBefore, 0, 0)
         IN /\ IF a >= 1
               THEN LinesAfter = InsertLines(LinesBefore, a, <<AddedBadge>>)
               ELSE LinesAfter = <<<<>>, AddedBadge, <<>>>> \o LinesBefore
            /\ LinesBefore \in {<<BuildLine, BuildLine>>, <<BuildLine, BuildLine, <<>>>>} =>
                 /\ Cardinality({k \in DOMAIN LinesAfter : BadgeLike(LinesAfter[k])}) = 3
                 /\ BadgeLine \in {3, 4}
                 /\ \A k \in 3..(BadgeLine - 1) : LinesAfter[k] = <<>>]_vars

\* The README "B\nB\n" after the badge was added.
C25_Witness ==
    /\ ucalls = 1 /\ "action" \in DOMAIN last /\ last.action = "Added"
    /\ f_read(readme0) = join(<<BuildLine, BuildLine, <<>>>>)
    /\ split(f_read(readme)) = <<BuildLine, BuildLine, <<>>, TableBadge(last.level)>>

NewLines(n) == [i \in 1..n |-> "\n"]

\* C26: when update_badge adds a badge, the README after it is the README
\* before it with one piece inserted, the badge line with at most two blank
\* lines, and nothing else changed; the badge line comes after the first
\* heading when there is one.
C26_OnlyInsertion ==
    [][AddStep =>
         /\ \E i \in 0..Len(readme), a \in 0..3, b \in 0..3 :
               /\ a + b \in 1..3
               /\ readme' = SubSeq(readme, 1, i) \o NewLines(a) \o AddedBadge \o NewLines(b)
                              \o SubSeq(readme, i + 1, Len(readme))
         /\ BadgeLine > AfterHeading(LinesBefore)]_vars

\* A bootstrap run.
IsBootstrapStep == bcalls' = bcalls + 1

\* C27: create_minimal_structure succeeds whether or not .ai/ exists,
\* reports the files context.yaml and README.md, leaves both holding the
\* templates (an existing context.yaml is overwritten) and changes no other
\* file of .ai/; a second run leaves .ai/ as the first did and reports the
\* same.
C27_Idempotent ==
    [][IsBootstrapStep =>
         /\ ai_dir' /\ result'.status = "success"
         /\ result'.files_created = <<"context.yaml", "README.md">>
         /\ context' = context_template(analyze_project(project))
         /\ ai_readme' = "template"
         /\ found' \ {"context.yaml"} = found \ {"context.yaml"}
         /\ bcalls >= 1 =>
              /\ context' = context /\ ai_readme' = ai_readme
              /\ found' = found /\ result' = result]_vars

\* Two runs made in a directory that holds an optional file.
C27_Witness ==
    /\ bcalls = 2 /\ result.status = "success"
    /\ ai_readme = "template" /\ "workflows.yaml" \in found

\* A call of check_badge_accuracy.
IsCheckStep == ucalls' = ucalls + 1 /\ "current" \in DOMAIN last'

\* The last call was update_badge with the tier of the report.
UpdatedToReport ==
    /\ report # NoReport
    /\ "action" \in DOMAIN last /\ last.action \in {"Added", "Updated"}
    /\ last.level = report.compliance_level

\* C29: after validate() gave tier T and update_badge(T) wrote the README,
\* check_badge_accuracy returns true for T and false for every other tier,
\* and the badge in the README is the report's badge_markdown.
C29_ValidateThenUpdate ==
    [][(IsCheckStep /\ UpdatedToReport) =>
         /\ last'.ok <=> last'.level = report.compliance_level
         /\ "badge_markdown" \in DOMAIN report
         /\ has_badge(f_read(readme))
         /\ FirstMatchText(f_read(readme)) = report.badge_markdown]_vars

\* Both concurrent invocations have returned.
BothDone == updater # NoUpdaters /\ \A p \in Updaters : updater[p].pc = "done"

\* C30: when two update_badge invocations on one README have interleaved
\* their reads and writes in any order, the README holds all the original
\* content that was not a badge and exactly one AICaC badge, the badge of
\* the invocation that wrote last.
C30_NoLockNeeded ==
    BothDone =>
        /\ NumMatches(f_read(readme)) = 1
        /\ FirstMatchText(f_read(readme)) = TableBadge(last.level)
        /\ \A i \in DOMAIN Outside(f_read(readme0)) :
              Occurs(Outside(f_read(readme0))[i], f_read(readme))
====
